---- MODULE Spec2Model ----
(***************************************************************************)
(* Model of the arena variant of the binary-trees benchmark (main.go):     *)
(* Tree, Count, NewTree, allocTreeNode and the orchestrator Run with its   *)
(* stretch goroutine, long-lived goroutine and one goroutine per depth.    *)
(***************************************************************************)
EXTENDS Integers, Sequences, FiniteSets, TLC

(* ------------------------------ bounds --------------------------------- *)

\* Largest depth given on the command line (Run's argument).
MaxInputDepth == 6

\* Largest depth handed to NewTree by the tree harness (SpecTree).
MaxTreeDepth == 3

(* ------------------------------- state ---------------------------------- *)

VARIABLES
    n,              \* main's n: the depth given on the command line
    trees, counts,  \* the tree harness: NewTree's and Count's results per input
    maxDepth,       \* Run's parameter (main passes n), reassigned by the clamp
    single,         \* *single
    minAllocMB,     \* *minAllocMB
    ovf,            \* what this build's float -> int conversion gives out of range
    pc,             \* position of the goroutine executing Run
    depth,          \* the depth loop's variable
    iterations,     \* the depth loop's iterations
    outCurr, outSize, outBuff,
    wg,             \* the WaitGroup's counter
    longLivedTree, longLivedArena,
    nodes,          \* Run's nodes (the long-lived tree's count)
    stretch,        \* the stretch goroutine: pc, stretchArena, nodes
    longLived,      \* the long-lived goroutine: pc
    bucket,         \* the depth goroutines, in launch order
    arenas,         \* the live regions: the number of nodes carved from each
    freeErr,        \* a region was released that was not live
    stdout,         \* the lines printed
    uaf,            \* a node of a released region was read or written
    writers,        \* for each outBuff index, who stored into it, in order
    slotReads,      \* for each outBuff index, how often it was read for output
    earlyRead,      \* a slot was read for output while a task was unfinished
    proc            \* main: its position, the profile flags, the depth argument,
                    \* the profiles started and written, the fatal report, the exit code

vars == <<n, trees, counts, maxDepth, single, minAllocMB, ovf, pc, depth, iterations, outCurr,
          outSize, outBuff, wg, longLivedTree, longLivedArena, nodes, stretch,
          longLived, bucket, arenas, freeErr, stdout, uaf, writers, slotReads,
          earlyRead, proc>>

runVars == <<maxDepth, depth, iterations, outCurr, outSize>>
flagVars == <<n, single, minAllocMB, ovf, trees, counts, proc>>

(* ------------------------- program constants --------------------------- *)

minDepth == 4

\* Bytes per Tree node as the program accounts for them (newNodes * 16).
NodeSize == 16

\* 1 << 20, the number of bytes in the megabyte of the -minalloc flag.
MB == 1048576

(* ------------------------------ values --------------------------------- *)

\* The nil *Tree.
NilTree == [nil |-> TRUE]

\* The nil *arena.Arena.
NilArena == 0

\* 2^n
RECURSIVE Pow2(_)
Pow2(e) == IF e <= 0 THEN 1 ELSE 2 * Pow2(e - 1)

(* --------------------------- Tree, NewTree, Count ----------------------- *)

\* A zero-valued Tree node; `arena` records the region the node was carved
\* from (NilArena for a node allocated on the garbage-collected heap).
allocTreeNode(a) ==
    [ptr    |-> [Left |-> NilTree, Right |-> NilTree, arena |-> a],
     allocs |-> IF a /= NilArena THEN 1 ELSE 0]

\* A variant of NewTree that builds the right sub-tree outside the arena.
RECURSIVE NewTreeRightOutside(_, _)
NewTreeRightOutside(d, a) ==
    IF d > 0
    THEN LET left    == NewTreeRightOutside(d - 1, a)
             right   == NewTreeRightOutside(d - 1, NilArena)
             treePtr == allocTreeNode(a)
         IN  [ptr    |-> [treePtr.ptr EXCEPT !.Left = left.ptr, !.Right = right.ptr],
              allocs |-> left.allocs + right.allocs + treePtr.allocs]
    ELSE allocTreeNode(a)

\* A variant of NewTree that forgets to attach the right sub-tree of the
\* nodes just above the leaves.
RECURSIVE NewTreeNoRight(_, _)
NewTreeNoRight(d, a) ==
    IF d > 0
    THEN LET left    == NewTreeNoRight(d - 1, a)
             right   == NewTreeNoRight(d - 1, a)
             treePtr == allocTreeNode(a)
         IN  [ptr    |-> [treePtr.ptr EXCEPT !.Left = left.ptr,
                                             !.Right = IF d = 1 THEN NilTree
                                                       ELSE right.ptr],
              allocs |-> left.allocs + right.allocs + treePtr.allocs]
    ELSE allocTreeNode(a)

\* NewTree(depth, a), depth written d: the tree returned and the number of arena.New calls made.
RECURSIVE NewTree(_, _)
NewTree(d, a) ==
    IF d > 0
    THEN LET left    == NewTree(d - 1, a)
             right   == NewTree(d - 1, a)
             treePtr == allocTreeNode(a)
         IN  [ptr    |-> [treePtr.ptr EXCEPT !.Left = left.ptr, !.Right = right.ptr],
              allocs |-> left.allocs + right.allocs + treePtr.allocs]
    ELSE allocTreeNode(a)

\* A variant of Count that leaves the node itself out when it has children.
RECURSIVE CountLeaves(_)
CountLeaves(t) ==
    IF t = NilTree THEN 0
    ELSE IF t.Left = NilTree THEN 1
    ELSE CountLeaves(t.Right) + CountLeaves(t.Left)

\* (t *Tree).Count(); only the Left edge is tested.  Count is never applied
\* to nil by the program; a nil receiver (a panic in Go) is counted as 0 here.
RECURSIVE Count(_)
Count(t) ==
    IF t = NilTree THEN 0
    ELSE IF t.Left = NilTree THEN 1
    ELSE 1 + Count(t.Right) + Count(t.Left)

\* The regions the nodes of t were carved from.
RECURSIVE ArenasOf(_)
ArenasOf(t) ==
    IF t = NilTree THEN {}
    ELSE {t.arena} \cup ArenasOf(t.Left) \cup ArenasOf(t.Right)

\* The shape of t: t without the ownership tags.
RECURSIVE Shape(_)
Shape(t) ==
    IF t = NilTree THEN NilTree
    ELSE [Left |-> Shape(t.Left), Right |-> Shape(t.Right)]

\* Every node of t has zero or two children.
RECURSIVE IsComplete(_)
IsComplete(t) ==
    IF t = NilTree THEN TRUE
    ELSE /\ (t.Left = NilTree) <=> (t.Right = NilTree)
         /\ IsComplete(t.Left)
         /\ IsComplete(t.Right)

\* The number of nodes of t, testing both edges.
RECURSIVE Size(_)
Size(t) ==
    IF t = NilTree THEN 0 ELSE 1 + Size(t.Left) + Size(t.Right)

(* ------------------------ the -minalloc threshold ----------------------- *)

\* The -minalloc flag is a float64 number of megabytes.  A finite value is
\* held as num / MinAllocDen megabytes, that is num half-bytes; "over" is a
\* value whose product with 1<<20 is 2^63 or more (+Inf included).
MinAllocDen == MB + MB

MinAllocNums == {-2, 0, 10001, MinAllocDen}

MinAllocValues ==
    {[kind |-> "fin", num |-> m] : m \in MinAllocNums} \cup {[kind |-> "over", num |-> 0]}

\* What a float64 -> int conversion of an out-of-range value yields is
\* implementation-dependent: the smallest int64 (amd64) or the largest
\* int64 (saturating conversion, arm64).
OvfResults == {"minint", "maxint"}

\* Integer division truncating toward zero, as Go's float -> int conversion.
Trunc(num, den) ==
    IF num >= 0 THEN num \div den ELSE -((-num) \div den)

\* int(*minAllocMB * (1 << 20)): an int64, held as v when inf = 0, the
\* smallest int64 when inf = -1 and the largest int64 when inf = 1.
ToInt(m, o) ==
    IF m.kind = "over"
    THEN [inf |-> IF o = "minint" THEN -1 ELSE 1, v |-> 0]
    ELSE [inf |-> 0, v |-> Trunc(m.num, MinAllocDen \div MB)]

\* x > thr for an int x far below 2^63 and a threshold as ToInt gives it.
Gt(x, thr) == thr.inf = -1 \/ (thr.inf = 0 /\ x > thr.v)

\* x <= thr + y for ints x, y far below 2^63.
LeqPlus(x, thr, y) == thr.inf = 1 \/ (thr.inf = 0 /\ x <= thr.v + y)

(* ---------------------------- report lines ------------------------------ *)

\* The zero value of an outBuff element.
EmptyLine == [kind |-> ""]

\* float64(nodes*16)/(1<<20) as "%0.1f" prints it, in tenths of a megabyte
\* (round to nearest, ties to even).
TenthsMB(c) ==
    LET x == c * NodeSize * 10
        q == x \div MB
        r == x % MB
    IN  IF 2 * r > MB THEN q + 1
        ELSE IF 2 * r = MB THEN q + (q % 2)
        ELSE q

StretchMsg(d, c) ==
    [kind |-> "stretch tree", depth |-> d, arenas |-> 1, nodes |-> c, mb |-> TenthsMB(c)]

TreesMsg(its, d, ac, c) ==
    [kind |-> "trees", iterations |-> its, depth |-> d, arenas |-> ac,
     nodes |-> c, mb |-> TenthsMB(c)]

LongLivedMsg(d, c) ==
    [kind |-> "long lived tree", depth |-> d, arenas |-> 1, nodes |-> c, mb |-> TenthsMB(c)]

\* The depths given on the command line: one below the clamp and the largest.
InputDepths == {0, MaxInputDepth}

\* Region identities: a distinct positive number for the region of the
\* stretch goroutine, the long-lived region, and the arenaCount-th region of
\* the depth goroutine that stores into outBuff[index].
StretchArenaId == 1
LongLivedArenaId == StretchArenaId + 1
\* A variant of TreeArenaId in which the depth goroutines share one treeArena
\* variable instead of each declaring its own.
TreeArenaIdShared(index, arenaCount) == LongLivedArenaId + arenaCount

TreeArenaId(index, arenaCount) ==
    LongLivedArenaId + ((index + arenaCount) * (index + arenaCount + 1)) \div 2 + arenaCount

\* arena.NewArena(): ar maps each live region to the number of nodes carved
\* from it.
NewArena(ar, id) == (id :> 0) @@ ar

\* (*arena.Arena).Free(): the region and all its nodes are gone.
Free(ar, id) == [a \in DOMAIN ar \ {id} |-> ar[a]]

\* arena.New[Tree](a), n times
Carve(ar, id, c) == IF id \in DOMAIN ar THEN [ar EXCEPT ![id] = @ + c] ELSE ar

\* Region id has been released in ar (the nil arena never is; an id is only
\* ever held once its region has been created).
ReleasedIn(ar, id) == id /= NilArena /\ id \notin DOMAIN ar

Released(id) == ReleasedIn(arenas, id)

\* NewTree and Count are pure, so their results for the calls Run can make
\* within the bounds are tabulated once: for a depth and a region, the tree
\* NewTree returns, the arena.New calls it makes, its Count and the regions
\* its nodes lie in.
Built(d, a) ==
    LET t == NewTree(d, a)
    IN  [ptr |-> t.ptr, allocs |-> t.allocs, count |-> Count(t.ptr),
         arenas |-> ArenasOf(t.ptr)]

MaxClamped == IF MaxInputDepth < minDepth + 2 THEN minDepth + 2 ELSE MaxInputDepth

TreeKeys ==
    {<<md + 1, StretchArenaId>> : md \in (minDepth + 2)..MaxClamped}
    \cup {<<md, LongLivedArenaId>> : md \in (minDepth + 2)..MaxClamped}
    \cup UNION {{<<minDepth + 2 * (k - 1), TreeArenaId(k, g)>> :
                    g \in 1..(Pow2(MaxClamped - 2 * (k - 1)) + 1)} :
                k \in 1..((MaxClamped - minDepth) \div 2 + 1)}

\* (the @@ makes the table an explicit function, computed once)
BuiltTable == [k \in TreeKeys |-> Built(k[1], k[2])] @@ <<>>

\* tree := NewTree(d, a) together with tree.Count().
NewTreeCounted(d, a) ==
    IF <<d, a>> \in DOMAIN BuiltTable THEN BuiltTable[<<d, a>>] ELSE Built(d, a)

\* A *Tree kept in a variable is held as the NewTree call that returned it;
\* the nodes it points to are never written again, so Deref gives them back.
TreeRef(d, a) == [depth |-> d, arena |-> a]

Deref(p) == NewTreeCounted(p.depth, p.arena)

\* Some node of the tree t (as NewTreeCounted gives it) lies in a region
\* released in ar.
DanglingBuilt(ar, t) == \E a \in t.arenas : ReleasedIn(ar, a)

(* --------------------------------- main --------------------------------- *)

\* n := 21, main.go 265.
DefaultDepth == 21

\* The messages of main's log.Fatal calls (main.go 242, 246, 255/260, 270).
NoReport == ""
CouldNotCreateCPUProfile == "could not create CPU profile: "
CouldNotStartCPUProfile == "could not start CPU profile: "
CouldNotWriteMemProfile == "could not create or write memory profile: "
MustSpecifyDepth == "must specify binary tree depth as integer: "

\* main's state on entry, after flag.Parse(): whether -cpuprofile and
\* -memprofile are set (cpu, mem), and the positional argument: absent
\* ("none"), not an integer ("bad"), or the integer argv ("int").
ProcStart(cpu, mem, a, v) ==
    [pc |-> "cpu", cpuprofile |-> cpu, memprofile |-> mem, arg |-> a, argv |-> v,
     cpuFile |-> FALSE, cpuStarted |-> FALSE, cpuProfiling |-> FALSE,
     memDeferred |-> FALSE, memWritten |-> FALSE,
     stderr |-> NoReport, exitCode |-> 0]

\* main at its call Run(n), no profile requested.
ProcAtRun == [ProcStart(FALSE, FALSE, "int", 0) EXCEPT !.pc = "run"]

\* log.Fatal(msg): the report goes to standard error and the process exits
\* with status 1 at once; no deferred call runs.
Fatal(p, msg) == [p EXCEPT !.pc = "fatal", !.stderr = msg, !.exitCode = 1]

\* main returns (main.go 275): the deferred calls run last-in first-out: the
\* memory profile func (252-262, fatal when the file cannot be created or
\* written, ok = FALSE), pprof.StopCPUProfile (248), f.Close (244).
MainReturn(p, ok) ==
    IF p.memDeferred /\ ~ok
    THEN Fatal(p, CouldNotWriteMemProfile)
    ELSE [p EXCEPT !.pc = "done", !.memWritten = p.memDeferred,
                   !.cpuProfiling = FALSE]

Init ==
    /\ n \in InputDepths
    /\ trees = <<>>
    /\ counts = <<>>
    /\ maxDepth = n
    /\ single \in BOOLEAN
    /\ minAllocMB \in MinAllocValues
    /\ ovf \in (IF minAllocMB.kind = "over" THEN OvfResults ELSE {"minint"})
    /\ pc = "clamp"
    /\ depth = 0
    /\ iterations = 0
    /\ outCurr = 0
    /\ outSize = 0
    /\ outBuff = <<>>
    /\ wg = 0
    /\ longLivedTree = NilTree
    /\ longLivedArena = NilArena
    /\ nodes = 0
    /\ stretch = [pc |-> "idle", stretchArena |-> NilArena, nodes |-> 0]
    /\ longLived = [pc |-> "idle"]
    /\ bucket = <<>>
    /\ arenas = <<>>
    /\ freeErr = FALSE
    /\ stdout = <<>>
    /\ uaf = FALSE
    /\ writers = <<>>
    /\ slotReads = <<>>
    /\ earlyRead = FALSE
    /\ proc = ProcAtRun

\* The process is still running (main has not returned).
Running == pc /= "exited"

(* --------------------------- Run: orchestrator -------------------------- *)

\* A variant of Clamp that sizes outBuff without halving the depth range.
ClampNoHalving ==
    /\ pc = "clamp"
    /\ LET md == IF maxDepth < minDepth + 2 THEN minDepth + 2 ELSE maxDepth
           sz == 3 + (md - minDepth)
       IN  /\ maxDepth' = md
           /\ outCurr' = 0
           /\ outSize' = sz
           /\ outBuff' = [k \in 0..(sz - 1) |-> EmptyLine]
           /\ writers' = [k \in 0..(sz - 1) |-> <<>>]
           /\ slotReads' = [k \in 0..(sz - 1) |-> 0]
    /\ pc' = "addStretch"
    /\ UNCHANGED <<flagVars, depth, iterations, wg, longLivedTree, longLivedArena,
                   nodes, stretch, longLived, bucket, arenas, freeErr, stdout, uaf,
                   earlyRead>>

\* main.go 125-132: clamp maxDepth, size and allocate outBuff.
Clamp ==
    /\ pc = "clamp"
    /\ LET md == IF maxDepth < minDepth + 2 THEN minDepth + 2 ELSE maxDepth
           sz == 3 + (md - minDepth) \div 2
       IN  /\ maxDepth' = md
           /\ outCurr' = 0
           /\ outSize' = sz
           /\ outBuff' = [k \in 0..(sz - 1) |-> EmptyLine]
           /\ writers' = [k \in 0..(sz - 1) |-> <<>>]
           /\ slotReads' = [k \in 0..(sz - 1) |-> 0]
    /\ pc' = "addStretch"
    /\ UNCHANGED <<flagVars, depth, iterations, wg, longLivedTree, longLivedArena,
                   nodes, stretch, longLived, bucket, arenas, freeErr, stdout, uaf, earlyRead>>

\* main.go 136: wg.Add(1) for the stretch goroutine.
AddStretch ==
    /\ pc = "addStretch"
    /\ wg' = wg + 1
    /\ pc' = "goStretch"
    /\ UNCHANGED <<flagVars, runVars, outBuff, longLivedTree, longLivedArena, nodes,
                   stretch, longLived, bucket, arenas, freeErr, stdout, uaf, writers,
                   slotReads, earlyRead>>

\* main.go 137: go func() { ... }()
GoStretch ==
    /\ pc = "goStretch"
    /\ stretch' = [stretch EXCEPT !.pc = "start"]
    /\ pc' = "ifSingle"
    /\ UNCHANGED <<flagVars, runVars, outBuff, wg, longLivedTree, longLivedArena,
                   nodes, longLived, bucket, arenas, freeErr, stdout, uaf, writers,
                   slotReads, earlyRead>>

\* A variant of IfSingle that takes the multi-tree path whatever the flag.
IfSingleIgnored ==
    /\ pc = "ifSingle"
    /\ pc' = "addLong"
    /\ UNCHANGED <<flagVars, runVars, outBuff, wg, longLivedTree, longLivedArena,
                   nodes, stretch, longLived, bucket, arenas, freeErr, stdout, uaf, writers,
                   slotReads, earlyRead>>

\* main.go 154: if *single
IfSingle ==
    /\ pc = "ifSingle"
    /\ pc' = IF single THEN "waitSingle" ELSE "addLong"
    /\ UNCHANGED <<flagVars, runVars, outBuff, wg, longLivedTree, longLivedArena,
                   nodes, stretch, longLived, bucket, arenas, freeErr, stdout, uaf, writers,
                   slotReads, earlyRead>>

\* main.go 156-157: wg.Wait(); return
WaitSingle ==
    /\ pc = "waitSingle"
    /\ wg = 0
    /\ pc' = "returned"
    /\ UNCHANGED <<flagVars, runVars, outBuff, wg, longLivedTree, longLivedArena,
                   nodes, stretch, longLived, bucket, arenas, freeErr, stdout, uaf, writers,
                   slotReads, earlyRead>>

\* main.go 162-163: var longLivedTree *Tree; wg.Add(1)
AddLong ==
    /\ pc = "addLong"
    /\ longLivedTree' = NilTree
    /\ wg' = wg + 1
    /\ pc' = "newLongArena"
    /\ UNCHANGED <<flagVars, runVars, outBuff, longLivedArena, nodes, stretch,
                   longLived, bucket, arenas, freeErr, stdout, uaf, writers, slotReads,
                   earlyRead>>

\* main.go 166-167: longLivedArena := arena.NewArena(); defer longLivedArena.Free()
NewLongArena ==
    /\ pc = "newLongArena"
    /\ longLivedArena' = LongLivedArenaId
    /\ arenas' = NewArena(arenas, LongLivedArenaId)
    /\ pc' = "goLong"
    /\ UNCHANGED freeErr
    /\ UNCHANGED <<flagVars, runVars, outBuff, wg, longLivedTree, nodes, stretch,
                   longLived, bucket, stdout, uaf, writers, slotReads, earlyRead>>

\* main.go 169 and 176 (init): go func() { ... }(); depth := minDepth
GoLong ==
    /\ pc = "goLong"
    /\ longLived' = [longLived EXCEPT !.pc = "start"]
    /\ depth' = minDepth
    /\ pc' = "for"
    /\ UNCHANGED <<flagVars, maxDepth, iterations, outCurr, outSize, outBuff, wg,
                   longLivedTree, longLivedArena, nodes, stretch, bucket, arenas, freeErr,
                   stdout, uaf, writers, slotReads, earlyRead>>

\* A variant of ForBody that forgets wg.Add(1).
ForBodyNoAdd ==
    /\ pc = "for"
    /\ depth <= maxDepth
    /\ iterations' = Pow2(maxDepth - depth + minDepth)
    /\ outCurr' = outCurr + 1
    /\ pc' = "goBucket"
    /\ UNCHANGED <<flagVars, maxDepth, depth, outSize, outBuff, wg, longLivedTree,
                   longLivedArena, nodes, stretch, longLived, bucket, arenas, freeErr, stdout,
                   uaf, writers, slotReads, earlyRead>>

\* A variant of ForBody that leaves minDepth out of the shift.
ForBodyShiftNoMin ==
    /\ pc = "for"
    /\ depth <= maxDepth
    /\ iterations' = Pow2(maxDepth - depth)
    /\ outCurr' = outCurr + 1
    /\ wg' = wg + 1
    /\ pc' = "goBucket"
    /\ UNCHANGED <<flagVars, maxDepth, depth, outSize, outBuff, longLivedTree,
                   longLivedArena, nodes, stretch, longLived, bucket, arenas, freeErr, stdout,
                   uaf, writers, slotReads, earlyRead>>

\* main.go 176-180: depth <= maxDepth; iterations := 1 << (...); outCurr++; wg.Add(1)
ForBody ==
    /\ pc = "for"
    /\ depth <= maxDepth
    /\ iterations' = Pow2(maxDepth - depth + minDepth)
    /\ outCurr' = outCurr + 1
    /\ wg' = wg + 1
    /\ pc' = "goBucket"
    /\ UNCHANGED <<flagVars, maxDepth, depth, outSize, outBuff, longLivedTree,
                   longLivedArena, nodes, stretch, longLived, bucket, arenas, freeErr, stdout,
                   uaf, writers, slotReads, earlyRead>>

\* main.go 181, 215, 176 (post): go func(depth, iterations, index int) {...}
\* (depth, iterations, outCurr); depth += 2
GoBucket ==
    /\ pc = "goBucket"
    /\ bucket' = Append(bucket,
                        [pc |-> "start", depth |-> depth, iterations |-> iterations,
                         index |-> outCurr, treeArena |-> NilArena, arenaCount |-> 0,
                         allocated |-> 0, nodes |-> 0, i |-> 0])
    /\ depth' = depth + 2
    /\ pc' = "for"
    /\ UNCHANGED <<flagVars, maxDepth, iterations, outCurr, outSize, outBuff, wg,
                   longLivedTree, longLivedArena, nodes, stretch, longLived, arenas, freeErr,
                   stdout, uaf, writers, slotReads, earlyRead>>

\* A variant of Wait that does not wait for the counter to reach zero.
WaitNoJoin ==
    /\ pc = "for"
    /\ ~(depth <= maxDepth)
    /\ pc' = "countLong"
    /\ UNCHANGED <<flagVars, runVars, outBuff, wg, longLivedTree, longLivedArena,
                   nodes, stretch, longLived, bucket, arenas, freeErr, stdout, uaf,
                   writers, slotReads, earlyRead>>

\* main.go 176, 218: the loop condition fails; wg.Wait() returns once the
\* counter is zero.
Wait ==
    /\ pc = "for"
    /\ ~(depth <= maxDepth)
    /\ wg = 0
    /\ pc' = "countLong"
    /\ UNCHANGED <<flagVars, runVars, outBuff, wg, longLivedTree, longLivedArena,
                   nodes, stretch, longLived, bucket, arenas, freeErr, stdout, uaf,
                   writers, slotReads, earlyRead>>

\* main.go 222: nodes := longLivedTree.Count()
CountLong ==
    /\ pc = "countLong"
    /\ nodes' = IF longLivedTree = NilTree THEN Count(NilTree)
                 ELSE Deref(longLivedTree).count
    /\ uaf' = (uaf \/ (longLivedTree /= NilTree
                       /\ DanglingBuilt(arenas, Deref(longLivedTree))))
    /\ pc' = "writeLong"
    /\ UNCHANGED <<flagVars, runVars, outBuff, wg, longLivedTree, longLivedArena,
                   stretch, longLived, bucket, arenas, freeErr, stdout, writers, slotReads,
                   earlyRead>>

\* main.go 223-228: outBuff[outSize-1] = msg
WriteLong ==
    /\ pc = "writeLong"
    /\ outBuff' = [outBuff EXCEPT ![outSize - 1] = LongLivedMsg(maxDepth, nodes)]
    /\ writers' = [writers EXCEPT ![outSize - 1] = Append(@, <<"run", 0>>)]
    /\ pc' = "print"
    /\ UNCHANGED <<flagVars, runVars, wg, longLivedTree, longLivedArena, nodes,
                   stretch, longLived, bucket, arenas, freeErr, stdout, uaf, slotReads,
                   earlyRead>>

\* The goroutines that have called wg.Done().
StretchSignalled == stretch.pc \in {"signalled", "done"}
LongSignalled == longLived.pc = "done"
BucketSignalled(b) == bucket[b].pc = "done"

\* The goroutines launched and not yet past wg.Done().
Unsignalled ==
    (IF stretch.pc \notin {"idle", "signalled", "done"} THEN {<<"stretch", 0>>} ELSE {})
    \cup (IF longLived.pc \notin {"idle", "done"} THEN {<<"long", 0>>} ELSE {})
    \cup {<<"bucket", b>> : b \in {c \in DOMAIN bucket : bucket[c].pc /= "done"}}

\* main.go 231-233: for _, m := range outBuff { fmt.Println(m) }
PrintAll ==
    /\ pc = "print"
    /\ stdout' = stdout \o [k \in 1..outSize |-> outBuff[k - 1]]
    /\ slotReads' = [k \in DOMAIN slotReads |-> slotReads[k] + 1]
    /\ earlyRead' = (earlyRead \/ Unsignalled /= {})
    /\ pc' = "deferFree"
    /\ UNCHANGED <<flagVars, runVars, outBuff, wg, longLivedTree, longLivedArena,
                   nodes, stretch, longLived, bucket, arenas, freeErr, uaf, writers>>

\* main.go 167 (deferred) and 234: longLivedArena.Free(); Run returns.
DeferFree ==
    /\ pc = "deferFree"
    /\ freeErr' = (freeErr \/ longLivedArena \notin DOMAIN arenas)
    /\ arenas' = Free(arenas, longLivedArena)
    /\ pc' = "returned"
    /\ UNCHANGED <<flagVars, runVars, outBuff, wg, longLivedTree, longLivedArena,
                   nodes, stretch, longLived, bucket, stdout, uaf, writers,
                   slotReads, earlyRead>>

\* main.go 274-275: Run has returned, main returns and the process ends,
\* whatever the other goroutines are doing.
Exit ==
    /\ pc = "returned"
    /\ pc' = "exited"
    /\ \E ok \in BOOLEAN : proc' = MainReturn(proc, ok)
    /\ UNCHANGED <<n, single, minAllocMB, ovf, trees, counts, runVars, outBuff, wg,
                   longLivedTree, longLivedArena, nodes, stretch, longLived, bucket,
                   arenas, freeErr, stdout, uaf, writers, slotReads, earlyRead>>

(* --------------------------- stretch goroutine -------------------------- *)

\* main.go 140-151: stretchArena := arena.NewArena(); defer stretchArena.Free();
\* tree := NewTree(maxDepth+1, stretchArena); nodes := tree.Count(); msg := ...;
\* outBuff[0] = msg
StretchRun ==
    /\ Running
    /\ stretch.pc = "start"
    /\ LET t   == NewTreeCounted(maxDepth + 1, StretchArenaId)
           ar1 == Carve(NewArena(arenas, StretchArenaId), StretchArenaId, t.allocs)
           cnt == t.count
       IN  /\ stretch' = [stretch EXCEPT !.pc = "written", !.stretchArena = StretchArenaId,
                                         !.nodes = cnt]
           /\ arenas' = ar1
           /\ uaf' = (uaf \/ DanglingBuilt(ar1, t))
           /\ outBuff' = [outBuff EXCEPT ![0] = StretchMsg(maxDepth + 1, cnt)]
    /\ writers' = [writers EXCEPT ![0] = Append(@, <<"stretch", 0>>)]
    /\ UNCHANGED <<flagVars, runVars, pc, wg, longLivedTree, longLivedArena, nodes,
                   longLived, bucket, freeErr, stdout, slotReads, earlyRead>>

\* A variant of StretchDone that leaves out wg.Done().
StretchNoDone ==
    /\ Running
    /\ stretch.pc = "written"
    /\ stretch' = [stretch EXCEPT !.pc = "signalled"]
    /\ UNCHANGED <<flagVars, runVars, pc, outBuff, wg, longLivedTree, longLivedArena,
                   nodes, longLived, bucket, arenas, freeErr, stdout, uaf, writers,
                   slotReads, earlyRead>>

\* main.go 152: wg.Done()
StretchDone ==
    /\ Running
    /\ stretch.pc = "written"
    /\ wg' = wg - 1
    /\ stretch' = [stretch EXCEPT !.pc = "signalled"]
    /\ UNCHANGED <<flagVars, runVars, pc, outBuff, longLivedTree, longLivedArena,
                   nodes, longLived, bucket, arenas, freeErr, stdout, uaf, writers,
                   slotReads, earlyRead>>

\* main.go 141 (deferred): stretchArena.Free()
StretchFree ==
    /\ Running
    /\ stretch.pc = "signalled"
    /\ freeErr' = (freeErr \/ stretch.stretchArena \notin DOMAIN arenas)
    /\ arenas' = Free(arenas, stretch.stretchArena)
    /\ stretch' = [stretch EXCEPT !.pc = "done"]
    /\ UNCHANGED <<flagVars, runVars, pc, outBuff, wg, longLivedTree, longLivedArena,
                   nodes, longLived, bucket, stdout, uaf, writers, slotReads,
                   earlyRead>>

(* -------------------------- long-lived goroutine ------------------------ *)

\* main.go 170: longLivedTree = NewTree(maxDepth, longLivedArena)
LongNewTree ==
    /\ Running
    /\ longLived.pc = "start"
    /\ LET t == NewTreeCounted(maxDepth, longLivedArena)
       IN  /\ longLivedTree' = TreeRef(maxDepth, longLivedArena)
           /\ arenas' = Carve(arenas, longLivedArena, t.allocs)
    /\ uaf' = (uaf \/ Released(longLivedArena))
    /\ longLived' = [longLived EXCEPT !.pc = "built"]
    /\ UNCHANGED freeErr
    /\ UNCHANGED <<flagVars, runVars, pc, outBuff, wg, longLivedArena, nodes, stretch,
                   bucket, stdout, writers, slotReads, earlyRead>>

\* A variant of LongDone in which the long-lived goroutine releases the
\* region itself when it is done (the defer placed inside the goroutine).
LongDoneFreeing ==
    /\ Running
    /\ longLived.pc = "built"
    /\ wg' = wg - 1
    /\ arenas' = Free(arenas, longLivedArena)
    /\ longLived' = [longLived EXCEPT !.pc = "done"]
    /\ UNCHANGED <<flagVars, runVars, pc, outBuff, longLivedTree, longLivedArena,
                   nodes, stretch, bucket, freeErr, stdout, uaf, writers, slotReads,
                   earlyRead>>

\* main.go 171: wg.Done()
LongDone ==
    /\ Running
    /\ longLived.pc = "built"
    /\ wg' = wg - 1
    /\ longLived' = [longLived EXCEPT !.pc = "done"]
    /\ UNCHANGED <<flagVars, runVars, pc, outBuff, longLivedTree, longLivedArena,
                   nodes, stretch, bucket, arenas, freeErr, stdout, uaf, writers, slotReads,
                   earlyRead>>

(* ---------------------------- depth goroutines -------------------------- *)

\* int(*minAllocMB*(1<<20)), main.go 193.
Threshold == ToInt(minAllocMB, ovf)

\* The outBuff index a depth goroutine stores into: its parameter index.
SlotOfShared(r) == outCurr

SlotOf(r) == r.index

\* main.go 187-191: treeArena := arena.NewArena(); arenaCount := 1;
\* allocated := 0; nodes := 0; i := 0
BucketStart(b) ==
    /\ Running
    /\ bucket[b].pc = "start"
    /\ LET r  == bucket[b]
           ta == TreeArenaId(r.index, 1)
       IN  /\ bucket' = [bucket EXCEPT ![b] = [r EXCEPT !.pc = "loop", !.treeArena = ta,
                                                        !.arenaCount = 1, !.allocated = 0,
                                                        !.nodes = 0, !.i = 0]]
           /\ arenas' = NewArena(arenas, ta)
    /\ UNCHANGED freeErr
    /\ UNCHANGED <<flagVars, runVars, pc, outBuff, wg, longLivedTree, longLivedArena,
                   nodes, stretch, longLived, stdout, uaf, writers, slotReads,
                   earlyRead>>

\* The loop body with the threshold check made after the tree is built
\* instead of before.
BucketLoopCheckAfter(b) ==
    /\ Running
    /\ bucket[b].pc = "loop"
    /\ bucket[b].i < bucket[b].iterations
    /\ LET r        == bucket[b]
           t        == NewTreeCounted(r.depth, r.treeArena)
           ar1      == Carve(arenas, r.treeArena, t.allocs)
           doFree   == Gt(r.allocated, Threshold)
           ac       == IF doFree THEN r.arenaCount + 1 ELSE r.arenaCount
           ta       == IF doFree THEN TreeArenaId(r.index, ac) ELSE r.treeArena
           ar2      == IF doFree THEN NewArena(Free(ar1, r.treeArena), ta) ELSE ar1
           newNodes == t.count
       IN  /\ bucket' = [bucket EXCEPT ![b] =
                  [r EXCEPT !.treeArena = ta, !.arenaCount = ac,
                            !.nodes = @ + newNodes,
                            !.allocated = (IF doFree THEN 0 ELSE @) + newNodes * NodeSize,
                            !.i = @ + 1]]
           /\ arenas' = ar2
           /\ freeErr' = (freeErr \/ (doFree /\ r.treeArena \notin DOMAIN ar1))
           /\ uaf' = (uaf \/ ReleasedIn(arenas, r.treeArena) \/ DanglingBuilt(ar2, t))
    /\ UNCHANGED <<flagVars, runVars, pc, outBuff, wg, longLivedTree, longLivedArena,
                   nodes, stretch, longLived, stdout, writers, slotReads, earlyRead>>

\* The loop body adding the node count, not the byte count, to allocated.
BucketLoopNodesOnly(b) ==
    /\ Running
    /\ bucket[b].pc = "loop"
    /\ bucket[b].i < bucket[b].iterations
    /\ LET r        == bucket[b]
           doFree   == Gt(r.allocated, Threshold)
           ac       == IF doFree THEN r.arenaCount + 1 ELSE r.arenaCount
           ta       == IF doFree THEN TreeArenaId(r.index, ac) ELSE r.treeArena
           ar1      == IF doFree THEN NewArena(Free(arenas, r.treeArena), ta) ELSE arenas
           t        == NewTreeCounted(r.depth, ta)
           ar2      == Carve(ar1, ta, t.allocs)
           newNodes == t.count
       IN  /\ bucket' = [bucket EXCEPT ![b] =
                  [r EXCEPT !.treeArena = ta, !.arenaCount = ac,
                            !.nodes = @ + newNodes,
                            !.allocated = (IF doFree THEN 0 ELSE @) + newNodes,
                            !.i = @ + 1]]
           /\ arenas' = ar2
           /\ freeErr' = (freeErr \/ (doFree /\ r.treeArena \notin DOMAIN arenas))
           /\ uaf' = (uaf \/ ReleasedIn(ar1, ta) \/ DanglingBuilt(ar2, t))
    /\ UNCHANGED <<flagVars, runVars, pc, outBuff, wg, longLivedTree, longLivedArena,
                   nodes, stretch, longLived, stdout, writers, slotReads, earlyRead>>

\* The loop body releasing the region at the threshold without installing a
\* fresh one.
BucketLoopNoRenew(b) ==
    /\ Running
    /\ bucket[b].pc = "loop"
    /\ bucket[b].i < bucket[b].iterations
    /\ LET r        == bucket[b]
           doFree   == Gt(r.allocated, Threshold)
           ac       == IF doFree THEN r.arenaCount + 1 ELSE r.arenaCount
           ta       == r.treeArena
           ar1      == IF doFree THEN Free(arenas, r.treeArena) ELSE arenas
           t        == NewTreeCounted(r.depth, ta)
           ar2      == Carve(ar1, ta, t.allocs)
           newNodes == t.count
       IN  /\ bucket' = [bucket EXCEPT ![b] =
                  [r EXCEPT !.treeArena = ta, !.arenaCount = ac,
                            !.nodes = @ + newNodes,
                            !.allocated = (IF doFree THEN 0 ELSE @) + newNodes * NodeSize,
                            !.i = @ + 1]]
           /\ arenas' = ar2
           /\ freeErr' = (freeErr \/ (doFree /\ r.treeArena \notin DOMAIN arenas))
           /\ uaf' = (uaf \/ ReleasedIn(ar1, ta) \/ DanglingBuilt(ar2, t))
    /\ UNCHANGED <<flagVars, runVars, pc, outBuff, wg, longLivedTree, longLivedArena,
                   nodes, stretch, longLived, stdout, writers, slotReads, earlyRead>>

\* The loop body with the threshold test written >= instead of >.
BucketLoopGeq(b) ==
    /\ Running
    /\ bucket[b].pc = "loop"
    /\ bucket[b].i < bucket[b].iterations
    /\ LET r        == bucket[b]
           doFree   == Gt(r.allocated + 1, Threshold)
           ac       == IF doFree THEN r.arenaCount + 1 ELSE r.arenaCount
           ta       == IF doFree THEN TreeArenaId(r.index, ac) ELSE r.treeArena
           ar1      == IF doFree THEN NewArena(Free(arenas, r.treeArena), ta) ELSE arenas
           t        == NewTreeCounted(r.depth, ta)
           ar2      == Carve(ar1, ta, t.allocs)
           newNodes == t.count
       IN  /\ bucket' = [bucket EXCEPT ![b] =
                  [r EXCEPT !.treeArena = ta, !.arenaCount = ac,
                            !.nodes = @ + newNodes,
                            !.allocated = (IF doFree THEN 0 ELSE @) + newNodes * NodeSize,
                            !.i = @ + 1]]
           /\ arenas' = ar2
           /\ freeErr' = (freeErr \/ (doFree /\ r.treeArena \notin DOMAIN arenas))
           /\ uaf' = (uaf \/ ReleasedIn(ar1, ta) \/ DanglingBuilt(ar2, t))
    /\ UNCHANGED <<flagVars, runVars, pc, outBuff, wg, longLivedTree, longLivedArena,
                   nodes, stretch, longLived, stdout, writers, slotReads, earlyRead>>

\* The loop body accumulating into the nodes variable of Run instead of a
\* variable of its own.
BucketLoopSharedNodes(b) ==
    /\ Running
    /\ bucket[b].pc = "loop"
    /\ bucket[b].i < bucket[b].iterations
    /\ LET r        == bucket[b]
           doFree   == Gt(r.allocated, Threshold)
           ac       == IF doFree THEN r.arenaCount + 1 ELSE r.arenaCount
           ta       == IF doFree THEN TreeArenaId(r.index, ac) ELSE r.treeArena
           ar1      == IF doFree THEN NewArena(Free(arenas, r.treeArena), ta) ELSE arenas
           t        == NewTreeCounted(r.depth, ta)
           ar2      == Carve(ar1, ta, t.allocs)
           newNodes == t.count
       IN  /\ bucket' = [bucket EXCEPT ![b] =
                  [r EXCEPT !.treeArena = ta, !.arenaCount = ac,
                            !.nodes = nodes + newNodes,
                            !.allocated = (IF doFree THEN 0 ELSE @) + newNodes * NodeSize,
                            !.i = @ + 1]]
           /\ nodes' = nodes + newNodes
           /\ arenas' = ar2
           /\ freeErr' = (freeErr \/ (doFree /\ r.treeArena \notin DOMAIN arenas))
           /\ uaf' = (uaf \/ ReleasedIn(ar1, ta) \/ DanglingBuilt(ar2, t))
    /\ UNCHANGED <<flagVars, runVars, pc, outBuff, wg, longLivedTree, longLivedArena,
                   stretch, longLived, stdout, writers, slotReads, earlyRead>>

\* main.go 192-202, one iteration: i < iterations;
\* if allocated > int(*minAllocMB*(1<<20)) { treeArena.Free();
\* treeArena = arena.NewArena(); arenaCount++; allocated = 0 };
\* tree := NewTree(depth, treeArena); newNodes := tree.Count();
\* nodes += newNodes; allocated += newNodes * 16; i++
BucketLoop(b) ==
    /\ Running
    /\ bucket[b].pc = "loop"
    /\ bucket[b].i < bucket[b].iterations
    /\ LET r        == bucket[b]
           doFree   == Gt(r.allocated, Threshold)
           ac       == IF doFree THEN r.arenaCount + 1 ELSE r.arenaCount
           ta       == IF doFree THEN TreeArenaId(r.index, ac) ELSE r.treeArena
           ar1      == IF doFree THEN NewArena(Free(arenas, r.treeArena), ta) ELSE arenas
           t        == NewTreeCounted(r.depth, ta)
           ar2      == Carve(ar1, ta, t.allocs)
           newNodes == t.count
       IN  /\ bucket' = [bucket EXCEPT ![b] =
                  [r EXCEPT !.treeArena = ta, !.arenaCount = ac,
                            !.nodes = @ + newNodes,
                            !.allocated = (IF doFree THEN 0 ELSE @) + newNodes * NodeSize,
                            !.i = @ + 1]]
           /\ arenas' = ar2
           /\ freeErr' = (freeErr \/ (doFree /\ r.treeArena \notin DOMAIN arenas))
           /\ uaf' = (uaf \/ ReleasedIn(ar1, ta) \/ DanglingBuilt(ar2, t))
    /\ UNCHANGED <<flagVars, runVars, pc, outBuff, wg, longLivedTree, longLivedArena,
                   nodes, stretch, longLived, stdout, writers, slotReads, earlyRead>>

\* main.go 192, 205-211: the loop ends; msg := ...; outBuff[index] = msg
BucketWrite(b) ==
    /\ Running
    /\ bucket[b].pc = "loop"
    /\ ~(bucket[b].i < bucket[b].iterations)
    /\ LET r == bucket[b]
       IN  /\ outBuff' = [outBuff EXCEPT ![SlotOf(r)] =
                              TreesMsg(r.iterations, r.depth, r.arenaCount, r.nodes)]
           /\ writers' = [writers EXCEPT ![SlotOf(r)] = Append(@, <<"bucket", b>>)]
           /\ bucket' = [bucket EXCEPT ![b].pc = "written"]
    /\ UNCHANGED <<flagVars, runVars, pc, wg, longLivedTree, longLivedArena, nodes,
                   stretch, longLived, arenas, freeErr, stdout, uaf, slotReads, earlyRead>>

\* main.go 213: treeArena.Free()
BucketFree(b) ==
    /\ Running
    /\ bucket[b].pc = "written"
    /\ freeErr' = (freeErr \/ bucket[b].treeArena \notin DOMAIN arenas)
    /\ arenas' = Free(arenas, bucket[b].treeArena)
    /\ bucket' = [bucket EXCEPT ![b].pc = "freed"]
    /\ UNCHANGED <<flagVars, runVars, pc, outBuff, wg, longLivedTree, longLivedArena,
                   nodes, stretch, longLived, stdout, uaf, writers, slotReads,
                   earlyRead>>

\* main.go 214: wg.Done()
BucketDone(b) ==
    /\ Running
    /\ bucket[b].pc = "freed"
    /\ wg' = wg - 1
    /\ bucket' = [bucket EXCEPT ![b].pc = "done"]
    /\ UNCHANGED <<flagVars, runVars, pc, outBuff, longLivedTree, longLivedArena,
                   nodes, stretch, longLived, arenas, freeErr, stdout, uaf, writers, slotReads,
                   earlyRead>>

(* ------------------------------ the program ----------------------------- *)

Next ==
    \/ Clamp
    \/ AddStretch
    \/ GoStretch
    \/ IfSingle
    \/ WaitSingle
    \/ AddLong
    \/ NewLongArena
    \/ GoLong
    \/ ForBody
    \/ GoBucket
    \/ Wait
    \/ CountLong
    \/ WriteLong
    \/ PrintAll
    \/ DeferFree
    \/ Exit
    \/ StretchRun
    \/ StretchDone
    \/ StretchFree
    \/ LongNewTree
    \/ LongDone
    \/ \E b \in DOMAIN bucket : BucketStart(b)
    \/ \E b \in DOMAIN bucket : BucketLoop(b)
    \/ \E b \in DOMAIN bucket : BucketWrite(b)
    \/ \E b \in DOMAIN bucket : BucketFree(b)
    \/ \E b \in DOMAIN bucket : BucketDone(b)

Spec == Init /\ [][Next]_vars

(* ------------------------------ main's steps ---------------------------- *)

\* The process as main starts after flag.Parse(): Run has not been called.
\* -minalloc and the conversion are left at one value each (the flag's
\* default of 1 MB).
InitMain ==
    /\ n = DefaultDepth
    /\ trees = <<>>
    /\ counts = <<>>
    /\ maxDepth = 0
    /\ single \in BOOLEAN
    /\ minAllocMB = [kind |-> "fin", num |-> MinAllocDen]
    /\ ovf = "minint"
    /\ pc = "main"
    /\ depth = 0
    /\ iterations = 0
    /\ outCurr = 0
    /\ outSize = 0
    /\ outBuff = <<>>
    /\ wg = 0
    /\ longLivedTree = NilTree
    /\ longLivedArena = NilArena
    /\ nodes = 0
    /\ stretch = [pc |-> "idle", stretchArena |-> NilArena, nodes |-> 0]
    /\ longLived = [pc |-> "idle"]
    /\ bucket = <<>>
    /\ arenas = <<>>
    /\ freeErr = FALSE
    /\ stdout = <<>>
    /\ uaf = FALSE
    /\ writers = <<>>
    /\ slotReads = <<>>
    /\ earlyRead = FALSE
    /\ \E cpu \in BOOLEAN, mem \in BOOLEAN :
           \E a \in {<<"none", 0>>, <<"bad", 0>>, <<"int", MaxInputDepth>>} :
               proc = ProcStart(cpu, mem, a[1], a[2])

mainFrame == <<trees, counts, single, minAllocMB, ovf, depth, iterations, outCurr,
               outSize, outBuff, wg, longLivedTree, longLivedArena, nodes, stretch,
               longLived, bucket, arenas, freeErr, stdout, uaf, writers, slotReads,
               earlyRead>>

\* main.go 239-249: if *cpuprofile != "" { f, err := os.Create(...);
\* log.Fatal on error; defer f.Close(); pprof.StartCPUProfile(f); log.Fatal
\* on error; defer pprof.StopCPUProfile() }.  Whether the file can be
\* created and the profile started is the environment's choice.
MainCPUProfile ==
    /\ proc.pc = "cpu"
    /\ IF ~proc.cpuprofile
       THEN proc' = [proc EXCEPT !.pc = "mem"]
       ELSE \E created \in BOOLEAN, started \in BOOLEAN :
                proc' = IF ~created THEN Fatal(proc, CouldNotCreateCPUProfile)
                        ELSE IF ~started
                        THEN Fatal([proc EXCEPT !.cpuFile = TRUE], CouldNotStartCPUProfile)
                        ELSE [proc EXCEPT !.pc = "mem", !.cpuFile = TRUE,
                                          !.cpuStarted = TRUE, !.cpuProfiling = TRUE]
    /\ UNCHANGED <<n, maxDepth, pc, mainFrame>>

\* main.go 251-263: if *memprofile != "" { defer func() {...}() }
MainMemProfile ==
    /\ proc.pc = "mem"
    /\ proc' = [proc EXCEPT !.pc = "arg", !.memDeferred = proc.memprofile]
    /\ UNCHANGED <<n, maxDepth, pc, mainFrame>>

\* main.go 265-272: n := 21; if flag.NArg() > 0 { n, err =
\* strconv.Atoi(flag.Arg(0)); log.Fatal on error }
MainParseArg ==
    /\ proc.pc = "arg"
    /\ IF proc.arg = "bad"
       THEN /\ proc' = Fatal(proc, MustSpecifyDepth)
            /\ n' = 0
       ELSE /\ proc' = [proc EXCEPT !.pc = "call"]
            /\ n' = IF proc.arg = "none" THEN n ELSE proc.argv
    /\ UNCHANGED <<maxDepth, pc, mainFrame>>

\* main.go 274: Run(n).  Runs deeper than MaxInputDepth (the default depth
\* of 21 among them) are not followed.
MainCallRun ==
    /\ proc.pc = "call"
    /\ n <= MaxInputDepth
    /\ proc' = [proc EXCEPT !.pc = "run"]
    /\ maxDepth' = n
    /\ pc' = "clamp"
    /\ UNCHANGED <<n, mainFrame>>

NextMain ==
    \/ MainCPUProfile
    \/ MainMemProfile
    \/ MainParseArg
    \/ MainCallRun
    \/ Next

SpecMain == InitMain /\ [][NextMain]_vars

(* ------------------------------ tree harness ---------------------------- *)

\* The region the harness hands to NewTree when it hands one.
HarnessArena == StretchArenaId

\* The inputs of NewTree: a depth, and a region or nil.
TreeInputs == (0..MaxTreeDepth) \X {NilArena, HarnessArena}

NotBuilt == [ptr |-> NilTree, allocs |-> 0]
NotCounted == 0 - 1

InitTree ==
    /\ n = 0
    /\ trees = [k \in TreeInputs |-> NotBuilt]
    /\ counts = [k \in TreeInputs |-> NotCounted]
    /\ maxDepth = 0
    /\ single = FALSE
    /\ minAllocMB = [kind |-> "fin", num |-> MinAllocDen]
    /\ ovf = "minint"
    /\ pc = "exited"
    /\ depth = 0
    /\ iterations = 0
    /\ outCurr = 0
    /\ outSize = 0
    /\ outBuff = <<>>
    /\ wg = 0
    /\ longLivedTree = NilTree
    /\ longLivedArena = NilArena
    /\ nodes = 0
    /\ stretch = [pc |-> "idle", stretchArena |-> NilArena, nodes |-> 0]
    /\ longLived = [pc |-> "idle"]
    /\ bucket = <<>>
    /\ arenas = <<>>
    /\ freeErr = FALSE
    /\ stdout = <<>>
    /\ uaf = FALSE
    /\ writers = <<>>
    /\ slotReads = <<>>
    /\ earlyRead = FALSE
    /\ proc = ProcAtRun

treeFrame == <<n, maxDepth, single, minAllocMB, ovf, pc, depth, iterations, outCurr,
               outSize, outBuff, wg, longLivedTree, longLivedArena, nodes, stretch,
               longLived, bucket, arenas, freeErr, stdout, uaf, writers, slotReads,
               earlyRead, proc>>

\* tree := NewTree(d, a), main.go 94-109
TreeBuild(d, a) ==
    /\ trees[<<d, a>>] = NotBuilt
    /\ trees' = [trees EXCEPT ![<<d, a>>] = NewTree(d, a)]
    /\ UNCHANGED <<counts, treeFrame>>

\* tree.Count(), main.go 85-91
TreeCount(d, a) ==
    /\ trees[<<d, a>>] /= NotBuilt
    /\ counts[<<d, a>>] = NotCounted
    /\ counts' = [counts EXCEPT ![<<d, a>>] = Count(trees[<<d, a>>].ptr)]
    /\ UNCHANGED <<trees, treeFrame>>

NextTree ==
    \/ \E k \in TreeInputs : TreeBuild(k[1], k[2])
    \/ \E k \in TreeInputs : TreeCount(k[1], k[2])

SpecTree == InitTree /\ [][NextTree]_vars

(* ------------------------------ properties ------------------------------ *)

\* The depth Run works with for a command-line depth x.
Clamped(x) == IF x < minDepth + 2 THEN minDepth + 2 ELSE x

\* The number of depth goroutines of a run.
NumBuckets == (Clamped(n) - minDepth) \div 2 + 1

\* Run is past wg.Wait() of the multi-tree path.
AfterJoin ==
    \/ pc \in {"countLong", "writeLong", "print", "deferFree"}
    \/ (pc \in {"returned", "exited"} /\ ~single)

\* Run has returned.
Returned == pc \in {"returned", "exited"}

\* wg.Add(1) has run for a goroutine that the go statement has not yet started.
Pending == IF pc \in {"goStretch", "newLongArena", "goLong", "goBucket"} THEN 1 ELSE 0

\* The nodes of a complete tree of depth d.
TreeNodes(d) == Pow2(d + 1) - 1

\* C1: no node is read by Count or written by NewTree after the region it
\* was carved from has been released: no such access has happened, the
\* region a depth goroutine allocates from between two trees is live, and
\* the long-lived region is live whenever the long-lived tree is about to
\* be counted.
C1_NoUseAfterRelease ==
    /\ ~uaf
    /\ \A b \in DOMAIN bucket :
           bucket[b].pc = "loop" => bucket[b].treeArena \in DOMAIN arenas
    /\ (pc = "countLong" /\ longLivedTree /= NilTree)
           => ~DanglingBuilt(arenas, Deref(longLivedTree))

\* C1 witness: the long-lived tree has been counted after the stretch region
\* and several regions of a depth goroutine were released.
C1_Witness ==
    /\ pc = "writeLong"
    /\ nodes = TreeNodes(maxDepth)
    /\ stretch.pc = "done"
    /\ \E b \in DOMAIN bucket : bucket[b].arenaCount > 2

\* C2: in non-single mode Run is past wg.Wait() only when the stretch
\* goroutine, the long-lived goroutine and every depth goroutine have called
\* wg.Done(); the counter always equals the number of goroutines added and
\* not yet done, so it is incremented before a goroutine can signal.
C2_JoinWaitsForAll ==
    /\ wg = Cardinality(Unsignalled) + Pending
    /\ (AfterJoin /\ ~single) =>
           /\ StretchSignalled
           /\ LongSignalled
           /\ Len(bucket) = NumBuckets
           /\ \A b \in DOMAIN bucket : BucketSignalled(b)

\* C2 witness: the join has just returned in a run with two depth goroutines.
C2_Witness ==
    /\ ~single
    /\ pc = "countLong"
    /\ Len(bucket) = 2
    /\ wg = 0

\* The writer assigned to outBuff index k at launch.
AssignedWriter(k) ==
    IF k = 0 THEN <<"stretch", 0>>
    ELSE IF k = outSize - 1 THEN <<"run", 0>>
    ELSE <<"bucket", k>>

C4_LinesOfMultiRun ==
    ~single =>
        IF pc \in {"deferFree", "returned", "exited"}
        THEN /\ Len(stdout) = 3 + (Clamped(n) - minDepth) \div 2
             /\ \A i \in DOMAIN stdout : stdout[i] /= EmptyLine
             /\ stdout[1].kind = "stretch tree"
             /\ stdout[Len(stdout)].kind = "long lived tree"
             /\ \A i \in 2..(Len(stdout) - 1) :
                    /\ stdout[i].kind = "trees"
                    /\ stdout[i].depth = minDepth + 2 * (i - 2)
                    /\ stdout[i].depth <= Clamped(n)
        ELSE stdout = <<>>

\* C4 witness: input depth 0 was clamped to 6 and the run printed 4 lines.
C4_Witness ==
    /\ ~single
    /\ n = 0
    /\ maxDepth = minDepth + 2
    /\ pc = "returned"
    /\ Len(stdout) = 4

\* C5: with the single flag set a run produces exactly one output line, the
\* stretch-tree line.
C5_SingleOneLine ==
    (single /\ Returned) =>
        (Len(stdout) = 1 /\ stdout[1].kind = "stretch tree")

\* C6: with the single flag set Run waits for the stretch goroutine only and
\* then stops: the long-lived region is never created, the long-lived
\* goroutine and the depth goroutines are never launched, and no slot other
\* than slot 0 is written.
C6_SingleOnlyStretch ==
    single =>
        /\ pc \in {"clamp", "addStretch", "goStretch", "ifSingle", "waitSingle",
                   "returned", "exited"}
        /\ longLivedArena = NilArena
        /\ LongLivedArenaId \notin DOMAIN arenas
        /\ longLived.pc = "idle"
        /\ longLivedTree = NilTree
        /\ bucket = <<>>
        /\ \A k \in DOMAIN writers : k /= 0 => (writers[k] = <<>> /\ outBuff[k] = EmptyLine)
        /\ Returned => (StretchSignalled /\ Len(writers[0]) = 1)

\* C6 witness: a single run has returned and its stretch goroutine is over.
C6_Witness ==
    /\ single
    /\ pc = "returned"
    /\ stretch.pc = "done"
    /\ outBuff[0] /= EmptyLine

\* The regions a depth goroutine uses for its trees of c nodes each: it
\* releases before every tree when the threshold is negative, never when it
\* is the largest int64, and otherwise after every m trees, m being the
\* least number of trees whose bytes exceed the threshold.
ExpectedArenas(its, c, thr) ==
    IF thr.inf = 1 THEN 1
    ELSE IF thr.inf = 0 - 1 \/ thr.v < 0 THEN its + 1
    ELSE 1 + (its - 1) \div (thr.v \div (c * NodeSize) + 1)

\* The line the arguments determine for outBuff index k.
ExpectedLine(k) ==
    LET md == Clamped(n)
        sz == 3 + (md - minDepth) \div 2
        d  == minDepth + 2 * (k - 1)
        it == Pow2(md - d + minDepth)
    IN  IF k = 0 THEN StretchMsg(md + 1, TreeNodes(md + 1))
        ELSE IF single THEN EmptyLine
        ELSE IF k = sz - 1 THEN LongLivedMsg(md, TreeNodes(md))
        ELSE TreesMsg(it, d, ExpectedArenas(it, TreeNodes(d), Threshold),
                      it * TreeNodes(d))

\* C7: the report does not depend on the scheduling: whatever the
\* interleaving, a slot holds either nothing or the line the arguments
\* (depth, minalloc, single) determine for it, Run returns with every slot
\* holding that line, and the lines printed are determined as well.
C7_ReportIndependentOfSchedule ==
    /\ \A k \in DOMAIN outBuff : outBuff[k] \in {EmptyLine, ExpectedLine(k)}
    /\ Returned =>
           /\ \A k \in DOMAIN outBuff : outBuff[k] = ExpectedLine(k)
           /\ stdout = IF single THEN <<>>
                       ELSE [i \in 1..outSize |-> ExpectedLine(i - 1)]

\* C7 witness: a multi-tree run with a threshold of 5000 bytes has returned
\* while the stretch goroutine has yet to release its region.
C7_Witness ==
    /\ ~single
    /\ minAllocMB = [kind |-> "fin", num |-> 10001]
    /\ pc = "returned"
    /\ Len(writers[1]) = 1
    /\ outBuff[2].arenas > 1
    /\ stretch.pc = "signalled"

\* The bytes a tree of depth d takes in a region.
TreeBytes(d) == TreeNodes(d) * NodeSize

\* The bytes carved from the current region of depth goroutine b.
RegionBytes(b) ==
    IF bucket[b].treeArena \in DOMAIN arenas
    THEN arenas[bucket[b].treeArena] * NodeSize
    ELSE 0

C8_CountOfNewTree ==
    \A k \in TreeInputs :
        /\ trees[k] /= NotBuilt => IsComplete(trees[k].ptr)
        /\ counts[k] /= NotCounted =>
               /\ counts[k] = Pow2(k[1] + 1) - 1
               /\ counts[k] = Size(trees[k].ptr)

\* C8 witness: the deepest tree was built and counted in both modes, and so
\* was the tree of depth 0.
C8_Witness ==
    /\ counts[<<MaxTreeDepth, HarnessArena>>] > 1
    /\ counts[<<MaxTreeDepth, NilArena>>] > 1
    /\ counts[<<0, HarnessArena>>] = 1
    /\ counts[<<0, NilArena>>] = 1

\* C9: for every depth d the tree built in a region and the tree built
\* without one have the same shape and the same number of nodes; they differ
\* only in that every node of the first is owned by the region (one
\* arena.New per node) and no node of the second is.
C9_RegionAndHeapTreesAlike ==
    \A d \in 0..MaxTreeDepth :
        LET r == trees[<<d, HarnessArena>>]
            h == trees[<<d, NilArena>>]
        IN  /\ r /= NotBuilt =>
                   (ArenasOf(r.ptr) = {HarnessArena} /\ r.allocs = Size(r.ptr))
            /\ h /= NotBuilt =>
                   (ArenasOf(h.ptr) = {NilArena} /\ h.allocs = 0)
            /\ (r /= NotBuilt /\ h /= NotBuilt) =>
                   /\ Shape(r.ptr) = Shape(h.ptr)
                   /\ Size(r.ptr) = Size(h.ptr)
                   /\ r.ptr /= h.ptr

\* C9 witness: the deepest tree has been built both in a region and without.
C9_Witness ==
    /\ trees[<<MaxTreeDepth, HarnessArena>>] /= NotBuilt
    /\ trees[<<MaxTreeDepth, NilArena>>] /= NotBuilt
    /\ Size(trees[<<MaxTreeDepth, NilArena>>].ptr) > 1

\* C11: the goroutine of depth d (d = minDepth, minDepth+2, ... up to the
\* clamped maxDepth) is handed iterations = 2^(maxDepth - d + minDepth) and
\* builds exactly that many trees: it never builds more, its node total is
\* that of the trees built so far, and once its loop is over it has built
\* them all; after the join there is one goroutine per depth.
C11_TreesPerDepth ==
    /\ Len(bucket) <= NumBuckets
    /\ (AfterJoin /\ ~single) => Len(bucket) = NumBuckets
    /\ \A b \in DOMAIN bucket :
           LET r == bucket[b]
           IN  /\ r.depth = minDepth + 2 * (b - 1)
               /\ r.depth <= Clamped(n)
               /\ r.iterations = Pow2(Clamped(n) - r.depth + minDepth)
               /\ r.i <= r.iterations
               /\ r.nodes = r.i * TreeNodes(r.depth)
               /\ r.pc \in {"written", "freed", "done"} => r.i = r.iterations

\* C11 witness: with maxDepth 6 the goroutine of depth 4 has built 64 trees
\* and the goroutine of depth 6 has built 16.
C11_Witness ==
    /\ maxDepth = 6
    /\ Len(bucket) = 2
    /\ bucket[1].depth = 4 /\ bucket[1].i = 64 /\ bucket[1].pc = "done"
    /\ bucket[2].depth = 6 /\ bucket[2].i = 16 /\ bucket[2].pc = "done"

\* C12: when the positional depth argument is not an integer the process
\* reports the error and terminates with nothing executed: Run is never
\* invoked, no goroutine is launched, no region is created, no line is
\* printed, and no instrumentation has been started.
C12_BadArgNothingExecuted ==
    (proc.pc = "fatal" /\ proc.arg = "bad" /\ proc.stderr = MustSpecifyDepth) =>
        /\ proc.exitCode = 1
        /\ pc = "main"
        /\ stretch.pc = "idle" /\ longLived.pc = "idle" /\ bucket = <<>>
        /\ arenas = <<>>
        /\ stdout = <<>>
        /\ ~proc.memWritten
        /\ ~proc.cpuStarted /\ ~proc.cpuProfiling /\ ~proc.cpuFile

\* C13: by the time Run has returned, in single and in non-single mode and
\* in every interleaving, every region created during the run has been
\* released, and every goroutine that has called wg.Done() no longer holds
\* a live region.
C13_AllReleasedAtReturn ==
    /\ Returned => DOMAIN arenas = {}
    /\ StretchSignalled => stretch.stretchArena \notin DOMAIN arenas
    /\ \A b \in DOMAIN bucket :
           BucketSignalled(b) => bucket[b].treeArena \notin DOMAIN arenas

\* The regions created so far: the stretch region, the long-lived region and
\* the regions each depth goroutine has installed (arenaCount of them).
Created ==
    (IF stretch.stretchArena /= NilArena THEN {stretch.stretchArena} ELSE {})
    \cup (IF longLivedArena /= NilArena THEN {longLivedArena} ELSE {})
    \cup UNION {{TreeArenaId(bucket[b].index, g) : g \in 1..bucket[b].arenaCount} :
                    b \in DOMAIN bucket}

\* The regions created and since released.
ReleasedRegions == Created \ DOMAIN arenas

\* The regions the goroutines hold at the moment.
Held ==
    {stretch.stretchArena, longLivedArena}
    \cup {bucket[b].treeArena : b \in DOMAIN bucket}

\* C14: a region goes created -> live -> released and never back: no region
\* is released twice (the depth goroutine's last release included), no node
\* is carved from a released region, a region that becomes live is one never
\* created before, a live region's nodes are never taken back, and a depth
\* goroutine inside its loop or about to make its last release holds a live
\* region, the one it installed last, which is released once it has made
\* that release.
C14_RegionLifecycle ==
    /\ [](/\ ~freeErr
          /\ ~uaf
          /\ DOMAIN arenas \subseteq Held
          /\ \A b \in DOMAIN bucket :
                 LET r == bucket[b]
                 IN  /\ r.pc \in {"loop", "written"} =>
                            /\ r.treeArena \in DOMAIN arenas
                            /\ r.treeArena = TreeArenaId(r.index, r.arenaCount)
                     /\ r.pc \in {"freed", "done"} => r.treeArena \notin DOMAIN arenas)
    /\ [][/\ \A id \in DOMAIN arenas' \ DOMAIN arenas : id \notin Created
          /\ \A id \in DOMAIN arenas :
                 id \in DOMAIN arenas' => arenas'[id] >= arenas[id]]_vars

\* C14 witness: a depth goroutine has made its last release after having
\* replaced its region five times inside the loop, with nothing released
\* twice.
C14_Witness ==
    /\ ~freeErr
    /\ \E b \in DOMAIN bucket :
           /\ bucket[b].pc = "freed"
           /\ bucket[b].arenaCount = 6
           /\ Cardinality(ReleasedRegions) >= 6

\* The goroutines holding region id as their current region: the stretch
\* goroutine, the depth goroutines, and for longLivedArena the long-lived
\* goroutine, which allocates from it.
Holders(id) ==
    (IF stretch.stretchArena = id THEN {<<"stretch", 0>>} ELSE {})
    \cup (IF longLivedArena = id THEN {<<"long", 0>>} ELSE {})
    \cup {<<"bucket", b>> : b \in {c \in DOMAIN bucket : bucket[c].treeArena = id}}

\* The goroutines whose own state a step changes ("run" is the goroutine
\* executing Run).
Movers ==
    (IF stretch' /= stretch THEN {<<"stretch", 0>>} ELSE {})
    \cup (IF longLived' /= longLived THEN {<<"long", 0>>} ELSE {})
    \cup (IF pc' /= pc THEN {<<"run", 0>>} ELSE {})
    \cup {<<"bucket", b>> : b \in {c \in DOMAIN bucket : bucket'[c] /= bucket[c]}}

\* The regions a step creates, allocates from or releases.
Touched ==
    {id \in DOMAIN arenas \cup DOMAIN arenas' :
        \/ id \notin DOMAIN arenas
        \/ id \notin DOMAIN arenas'
        \/ arenas'[id] /= arenas[id]}

\* C15: region ownership is exclusive.  Every live region is the current
\* region of exactly one goroutine, so a goroutine has at most one live
\* region and no two share one.  A step that creates, allocates from or
\* releases a region is a step of that one goroutine alone, except that the
\* long-lived region is created and released by Run (released only after
\* the join) and allocated from only by the long-lived goroutine.
C15_ExclusiveOwnership ==
    /\ [](\A id \in DOMAIN arenas : Cardinality(Holders(id)) = 1)
    /\ [][\A id \in Touched :
              LET o == IF id \in DOMAIN arenas THEN Holders(id) ELSE Holders(id)'
              IN  IF o = {<<"long", 0>>}
                  THEN IF id \in DOMAIN arenas /\ id \in DOMAIN arenas'
                       THEN Movers = {<<"long", 0>>}
                       ELSE /\ Movers = {<<"run", 0>>}
                            /\ id \notin DOMAIN arenas' => (AfterJoin /\ wg = 0)
                  ELSE /\ Cardinality(o) = 1
                       /\ Movers = o]_vars

\* C15 witness: the stretch goroutine, the long-lived goroutine and two
\* depth goroutines each have a live region with nodes in it.
C15_Witness ==
    /\ Cardinality(DOMAIN arenas) = 4
    /\ \A id \in DOMAIN arenas : arenas[id] > 0
    /\ Len(bucket) = 2
    /\ bucket[1].arenaCount > 1

\* What one step does to depth goroutine b when it is a step of b's loop
\* (i goes up by one): the region is released and replaced exactly when the
\* byte counter is strictly greater than the threshold before the tree is
\* built; the counter then restarts from 0 and arenaCount goes up by one;
\* otherwise region and arenaCount stay.  Either way one whole tree is then
\* built in the current region and its bytes are added to the counter.
ThresholdStep(b) ==
    LET r    == bucket[b]
        r2   == bucket'[b]
        over == Gt(r.allocated, Threshold)
    IN  r2.i /= r.i =>
            /\ r2.i = r.i + 1
            /\ r2.treeArena \in DOMAIN arenas'
            /\ IF over
               THEN /\ r2.treeArena /= r.treeArena
                    /\ r.treeArena \notin DOMAIN arenas'
                    /\ r2.arenaCount = r.arenaCount + 1
                    /\ r2.allocated = TreeBytes(r.depth)
                    /\ arenas'[r2.treeArena] = TreeNodes(r.depth)
               ELSE /\ r2.treeArena = r.treeArena
                    /\ r2.arenaCount = r.arenaCount
                    /\ r2.allocated = r.allocated + TreeBytes(r.depth)
                    /\ arenas'[r2.treeArena] = arenas[r.treeArena] + TreeNodes(r.depth)

\* What holds of depth goroutine b between steps: inside the loop the byte
\* counter is the bytes of the whole trees built in the current region, the
\* current region is the arenaCount-th the goroutine installed, and the
\* line written reports arenaCount.
ThresholdState(b) ==
    LET r == bucket[b]
    IN  /\ r.pc = "loop" =>
               /\ r.arenaCount >= 1
               /\ r.treeArena = TreeArenaId(r.index, r.arenaCount)
               /\ r.allocated = RegionBytes(b)
               /\ arenas[r.treeArena] % TreeNodes(r.depth) = 0
        /\ r.pc \in {"written", "freed", "done"} =>
               /\ outBuff[r.index].arenas = r.arenaCount
               /\ r.arenaCount = ExpectedArenas(r.iterations, TreeNodes(r.depth), Threshold)

\* A step releases a region of a depth goroutine in which no tree was built.
ReleasesEmptyRegion ==
    \E b \in DOMAIN bucket :
        /\ bucket[b].treeArena \in DOMAIN arenas
        /\ bucket[b].treeArena \notin DOMAIN arenas'
        /\ arenas[bucket[b].treeArena] = 0

C17_NodeTotals ==
    \A k \in DOMAIN outBuff :
        outBuff[k] /= EmptyLine =>
            LET md == Clamped(n)
                d  == minDepth + 2 * (k - 1)
            IN  IF k = 0
                THEN /\ outBuff[k].kind = "stretch tree"
                     /\ outBuff[k].depth = md + 1
                     /\ outBuff[k].nodes = Pow2(md + 2) - 1
                ELSE IF k = outSize - 1
                THEN /\ outBuff[k].kind = "long lived tree"
                     /\ outBuff[k].depth = md
                     /\ outBuff[k].nodes = Pow2(md + 1) - 1
                ELSE /\ outBuff[k].kind = "trees"
                     /\ outBuff[k].depth = d
                     /\ outBuff[k].iterations = Pow2(md - d + minDepth)
                     /\ outBuff[k].nodes = Pow2(md - d + minDepth) * (Pow2(d + 1) - 1)

\* C17 witness: for input depth 0 the stretch line reports depth 7 and 255
\* nodes, the long-lived line depth 6 and 127 nodes, and the two depth lines
\* are written, one of them by a goroutine that replaced its region.
C17_Witness ==
    /\ n = 0
    /\ ~single
    /\ pc = "print"
    /\ outBuff[0].depth = 7 /\ outBuff[0].nodes = 255
    /\ outBuff[outSize - 1].depth = 6 /\ outBuff[outSize - 1].nodes = 127
    /\ outBuff[1].nodes = 64 * 31
    /\ outBuff[2].nodes = 16 * 127
    /\ outBuff[1].arenas > 1

\* Run has counted the long-lived tree (it is past main.go 222).
LongCounted == pc \in {"writeLong", "print", "deferFree", "returned", "exited"}

\* The long-lived region has been created and is live.
LongLive == longLivedArena /= NilArena /\ longLivedArena \in DOMAIN arenas

\* Every goroutine launched by a multi-tree run has called wg.Done().
AllSignalled ==
    /\ StretchSignalled
    /\ LongSignalled
    /\ Len(bucket) = NumBuckets
    /\ \A b \in DOMAIN bucket : BucketSignalled(b)

\* Every goroutine launched by a multi-tree run has run to its end.
AllFinished == AllSignalled /\ stretch.pc = "done"

FairMinAllocValues ==
    {[kind |-> "fin", num |-> 10001], [kind |-> "over", num |-> 0]}

InitFair == Init /\ minAllocMB \in FairMinAllocValues

\* The Go scheduler runs a goroutine that can take a step: as long as some
\* goroutine of the process can step, one of them eventually does.
SpecFair == InitFair /\ [][Next]_vars /\ WF_vars(Next)

\* How far a goroutine has got.
StretchRank ==
    CASE stretch.pc = "idle" -> 0
      [] stretch.pc = "start" -> 1
      [] stretch.pc = "written" -> 2
      [] stretch.pc = "signalled" -> 3
      [] stretch.pc = "done" -> 4

LongRank ==
    CASE longLived.pc = "idle" -> 0
      [] longLived.pc = "start" -> 1
      [] longLived.pc = "built" -> 2
      [] longLived.pc = "done" -> 3

BucketRank(r) ==
    CASE r.pc = "start" -> 0
      [] r.pc = "loop" -> 1 + r.i
      [] r.pc = "written" -> 2 + r.iterations
      [] r.pc = "freed" -> 3 + r.iterations
      [] r.pc = "done" -> 4 + r.iterations

\* Run has returned with the counter at zero and every goroutine it
\* launched past wg.Done().
Concluded ==
    /\ Returned
    /\ wg = 0
    /\ StretchSignalled
    /\ \A b \in DOMAIN bucket : BucketSignalled(b)
    /\ ~single => (LongSignalled /\ Len(bucket) = NumBuckets)

\* C19: under fair scheduling every run terminates: Run returns with the
\* join counter back at zero and every launched goroutine done, and main
\* returns; a goroutine only ever moves forward, one step at a time, from
\* not started through running to done (no retry, no way back), and no
\* goroutine waits for another, Run at wg.Wait() excepted.  A reachable
\* deadlock (a state short of the end in which no step is possible) would
\* be a fair behaviour that never concludes, so the first conjunct rules
\* it out.
C19_Terminates ==
    /\ <>(Concluded /\ pc = "exited")
    /\ [][/\ StretchRank' \in {StretchRank, StretchRank + 1}
          /\ LongRank' \in {LongRank, LongRank + 1}
          /\ \A b \in DOMAIN bucket :
                 BucketRank(bucket'[b]) \in {BucketRank(bucket[b]), BucketRank(bucket[b]) + 1}]_vars

\* C19 witness: a multi-tree run has ended with every goroutine run to its
\* end.
C19_Witness ==
    /\ ~single
    /\ pc = "exited"
    /\ Concluded
    /\ stretch.pc = "done"
    /\ Len(bucket) = 2

\* The goroutines other than the one executing Run.
Tasks == Movers \ {<<"run", 0>>}

\* The regions held by goroutines other than t.
HeldByOthers(t) == {id \in DOMAIN arenas : Holders(id) /= {t}}

\* C20: the goroutines are isolated.  A step changes the own state of at
\* most one of them (Run starting a goroutine aside); a step of a stretch,
\* long-lived or depth goroutine leaves the locals of Run (maxDepth, depth,
\* iterations, outCurr, outSize, nodes) and every region held by another
\* goroutine as they were, and changes no slot of outBuff but its own; a
\* slot only ever changes by a step of its assigned writer; what a depth
\* goroutine was given at launch (depth, iterations, index) never changes,
\* nor does maxDepth once the goroutines are being launched.
C20_TasksIsolated ==
    [][/\ Cardinality(Tasks) <= 1
       /\ (Tasks /= {} /\ pc' /= pc) =>
              \/ (Tasks = {<<"stretch", 0>>} /\ stretch.pc = "idle")
              \/ (Tasks = {<<"long", 0>>} /\ longLived.pc = "idle")
       /\ (Tasks /= {} /\ pc' = pc) =>
              /\ UNCHANGED <<runVars, nodes, longLivedArena>>
              /\ \A t \in Tasks :
                     \A id \in HeldByOthers(t) :
                         id \in DOMAIN arenas' /\ arenas'[id] = arenas[id]
       /\ \A k \in DOMAIN outBuff :
              outBuff'[k] /= outBuff[k] => Movers = {AssignedWriter(k)}
       /\ \A b \in DOMAIN bucket :
              /\ bucket'[b].depth = bucket[b].depth
              /\ bucket'[b].iterations = bucket[b].iterations
              /\ bucket'[b].index = bucket[b].index
       /\ pc /= "clamp" => maxDepth' = maxDepth]_vars

\* C20 witness: the stretch goroutine has written its slot while two depth
\* goroutines are inside their loops, each with its own counters and region.
C20_Witness ==
    /\ stretch.pc = "written"
    /\ Len(bucket) = 2
    /\ bucket[1].pc = "loop" /\ bucket[1].i = 3
    /\ bucket[2].pc = "loop" /\ bucket[2].i = 5
    /\ bucket[1].treeArena /= bucket[2].treeArena
    /\ bucket[1].nodes /= bucket[2].nodes

====
